---- MODULE Spec2Model ----
(***************************************************************************)
(* Model of src/index.js: the CloudMonitor CI check.  main() reads its     *)
(* inputs from the environment, POSTs one comparison request, parses the   *)
(* response, prints a summary, pair details and annotations, and exits     *)
(* with a status decided by the risk threshold.                            *)
(*                                                                         *)
(* JavaScript strings are TLA+ strings (TLC evaluates Len, Head, Tail,     *)
(* SubSeq and \o on them).  JSON values are records of one shape,          *)
(* [t, s, k, e]: t the type tag, s the text of a string or number, k the   *)
(* keys of an object and e the members of an object or array.              *)
(*                                                                         *)
(* Left out: the stack frames console.error prints after the first line of *)
(* err.stack, a rejection of res.text(), escapes in JSON strings, non-ASCII *)
(* letter case, and the reordering of integer-like keys by Object.entries  *)
(* (no object of the model has such keys).                                 *)
(***************************************************************************)
EXTENDS Integers, Sequences, FiniteSets, TLC

\* ------------------------------------------------------------ JS strings

UpperAlphabet == "ABCDEFGHIJKLMNOPQRSTUVWXYZ"

LowerAlphabet == "abcdefghijklmnopqrstuvwxyz"

CharAt(s, i) == SubSeq(s, i, i)

\* The position of character c in alphabet a, 0 when it is not in it.
IndexIn(a, c) ==
    IF \E i \in 1..Len(a) : CharAt(a, i) = c
    THEN CHOOSE i \in 1..Len(a) : CharAt(a, i) = c
    ELSE 0

\* A character with its letter case changed: its partner in alphabet to when it
\* is in alphabet from.
MapChar(c, from, to) == IF IndexIn(from, c) = 0 THEN c ELSE CharAt(to, IndexIn(from, c))

\* The case mappings, as functions of the string: the argument is a value by
\* the time the recursion reads it.
LowerCased[s \in STRING] ==
    IF s = "" THEN ""
    ELSE MapChar(Head(s), UpperAlphabet, LowerAlphabet) \o LowerCased[Tail(s)]

UpperCased[s \in STRING] ==
    IF s = "" THEN ""
    ELSE MapChar(Head(s), LowerAlphabet, UpperAlphabet) \o UpperCased[Tail(s)]

\* String.prototype.toLowerCase, on ASCII text.
toLowerCase(s) == LowerCased[s]

\* String.prototype.toUpperCase, on ASCII text.
toUpperCase(s) == UpperCased[s]

\* Whether sub occurs in s at some position.
Includes[s \in STRING, sub \in STRING] ==
    \E i \in 1..(Len(s) - Len(sub) + 1) : SubSeq(s, i, i + Len(sub) - 1) = sub

\* String.prototype.includes
includes(s, sub) == Includes[s, sub]

\* slice with its end off by one.
sliceOneMore(s, n) == SubSeq(s, 1, IF Len(s) < n + 1 THEN Len(s) ELSE n + 1)

\* String.prototype.slice(0, n)
slice(s, n) == SubSeq(s, 1, IF Len(s) < n THEN Len(s) ELSE n)

\* The base URL taken as given.
KeepTrailingSlash(s) == s

\* String.prototype.replace(/\/$/, ""): drop one trailing slash.
StripTrailingSlash(s) ==
    IF Len(s) > 0 /\ CharAt(s, Len(s)) = "/" THEN SubSeq(s, 1, Len(s) - 1) ELSE s

\* String.prototype.split(sep), for a separator of one character.
RECURSIVE Split(_, _, _)
Split(s, sep, current) ==
    IF s = "" THEN <<current>>
    ELSE IF Head(s) = sep THEN <<current>> \o Split(Tail(s), sep, "")
    ELSE Split(Tail(s), sep, current \o Head(s))

WhiteSpace == {" ", "\t", "\n", "\r"}

\* String.prototype.trim
RECURSIVE trim(_)
trim(s) ==
    IF s = "" THEN s
    ELSE IF Head(s) \in WhiteSpace THEN trim(Tail(s))
    ELSE IF CharAt(s, Len(s)) \in WhiteSpace THEN trim(SubSeq(s, 1, Len(s) - 1))
    ELSE s

\* ------------------------------------------------------------ JS values

Undefined == [t |-> "undefined", s |-> "", k |-> <<>>, e |-> <<>>]

Null == [t |-> "null", s |-> "", k |-> <<>>, e |-> <<>>]

True == [t |-> "true", s |-> "", k |-> <<>>, e |-> <<>>]

False == [t |-> "false", s |-> "", k |-> <<>>, e |-> <<>>]

Str(s) == [t |-> "string", s |-> s, k |-> <<>>, e |-> <<>>]

\* A number, by its decimal text.
Num(s) == [t |-> "number", s |-> s, k |-> <<>>, e |-> <<>>]

Arr(e) == [t |-> "array", s |-> "", k |-> <<>>, e |-> e]

\* An object, by its keys and their values in insertion order.
Obj(k, e) == [t |-> "object", s |-> "", k |-> k, e |-> e]

\* ToBoolean: undefined, null, false, 0 and "" are falsy.
Truthy(v) ==
    CASE v.t \in {"undefined", "null", "false"} -> FALSE
      [] v.t = "number" -> v.s # "0"
      [] v.t = "string" -> v.s # ""
      [] OTHER -> TRUE

\* Property read v[key] on a value that is neither null nor undefined.
Get(v, key) ==
    IF v.t = "object" /\ \E i \in 1..Len(v.k) : v.k[i] = key
    THEN v.e[CHOOSE i \in 1..Len(v.k) : v.k[i] = key]
    ELSE Undefined

\* Optional chaining v?.[key].
GetOpt(v, key) == IF v.t \in {"undefined", "null"} THEN Undefined ELSE Get(v, key)

\* a || b
OrElse(a, b) == IF Truthy(a) THEN a ELSE b

\* String(v) and template-literal interpolation (ToString).
RECURSIVE JSString(_)
JSString(v) ==
    LET RECURSIVE Join(_, _)
        Join(items, i) ==
            IF i > Len(items) THEN ""
            ELSE (IF i > 1 THEN "," ELSE "")
                 \o (IF items[i].t \in {"undefined", "null"} THEN "" ELSE JSString(items[i]))
                 \o Join(items, i + 1)
    IN CASE v.t \in {"undefined", "null", "true", "false"} -> v.t
         [] v.t \in {"number", "string"} -> v.s
         [] v.t = "array" -> Join(v.e, 1)
         [] OTHER -> "[object Object]"

\* JSON.stringify(v), on strings that need no escaping.
RECURSIVE Stringify(_)
Stringify(v) ==
    LET RECURSIVE Members(_, _)
        Members(x, i) ==
            IF i > Len(x.e) THEN ""
            ELSE (IF i > 1 THEN "," ELSE "")
                 \o (IF x.t = "object" THEN "\"" \o x.k[i] \o "\":" ELSE "")
                 \o Stringify(x.e[i])
                 \o Members(x, i + 1)
    IN CASE v.t \in {"null", "true", "false"} -> v.t
         [] v.t = "number" -> v.s
         [] v.t = "string" -> "\"" \o v.s \o "\""
         [] v.t = "array" -> "[" \o Members(v, 1) \o "]"
         [] OTHER -> "{" \o Members(v, 1) \o "}"

\* Array.isArray(v)
IsArray(v) == v.t = "array"

\* Object.entries(v) of a value that is neither null nor undefined.
Entries(v) ==
    CASE v.t = "object" -> [i \in 1..Len(v.k) |-> [name |-> v.k[i], data |-> v.e[i]]]
      [] v.t = "array" -> [i \in 1..Len(v.e) |-> [name |-> ToString(i - 1), data |-> v.e[i]]]
      [] v.t = "string" ->
            [i \in 1..Len(v.s) |-> [name |-> ToString(i - 1), data |-> Str(CharAt(v.s, i))]]
      [] OTHER -> <<>>

\* ------------------------------------------------------------ helpers of index.js

Levels == {"low", "medium", "high"}

severityRank(level) == CASE level = "low" -> 1 [] level = "medium" -> 2 [] level = "high" -> 3

\* getInput: process.env[key] ?? fallback
getInput(environment, name, fallback) ==
    IF environment[name].t = "undefined" THEN fallback ELSE environment[name]

\* split(","), trim each entry, drop the empty ones.
parseCsv(input) ==
    LET parts == Split(input, ",", "")
    IN SelectSeq([i \in 1..Len(parts) |-> trim(parts[i])], LAMBDA part : part # "")

\* normalizeRisk with the strictest level as the default.
normalizeRiskDefaultHigh(risk) ==
    LET r == toLowerCase(JSString(OrElse(risk, Str(""))))
    IN IF r = "high" \/ r = "medium" \/ r = "low" THEN r ELSE "high"

normalizeRisk(risk) ==
    LET r == toLowerCase(JSString(OrElse(risk, Str(""))))
    IN IF r = "high" \/ r = "medium" \/ r = "low" THEN r ELSE "low"

\* The icons are U+2716, U+26A0 and U+2714 in the source.
icon(risk) ==
    IF risk = "high" THEN "[U+2716]"
    ELSE IF risk = "medium" THEN "[U+26A0]"
    ELSE "[U+2714]"

annotationPrefix(sev) ==
    IF sev = "high" THEN "::error::"
    ELSE IF sev = "medium" THEN "::warning::"
    ELSE "::notice::"

\* The rendered message: a JS value, a string unless message or title is not one.
issueToMessage(issue) ==
    IF issue.t = "string" THEN issue
    ELSE IF Truthy(issue) /\ issue.t \in {"object", "array"}
    THEN OrElse(Get(issue, "message"), OrElse(Get(issue, "title"), Str(Stringify(issue))))
    ELSE Str(JSString(issue))

\* msg.toLowerCase() is a TypeError when the rendered message is not a string.
InferThrows(issue) ==
    /\ ~(Truthy(issue) /\ issue.t \in {"object", "array"} /\ Truthy(Get(issue, "severity")))
    /\ issueToMessage(issue).t # "string"

\* inferSeverityFromIssue using the severity field only when it is a valid level.
inferSeverityValidOnly(issue, fallbackPairRisk) ==
    LET sev == GetOpt(issue, "severity")
        msg == toLowerCase(issueToMessage(issue).s)
    IN IF sev.t = "string" /\ toLowerCase(sev.s) \in Levels
       THEN toLowerCase(sev.s)
       ELSE IF includes(msg, "missing snapshot for production") \/ includes(msg, "app_debug")
       THEN "high"
       ELSE IF includes(msg, "missing env key") \/ includes(msg, "mismatch")
       THEN "medium"
       ELSE normalizeRisk(fallbackPairRisk)

\* inferSeverityFromIssue with the medium keywords tried first.
inferSeverityMediumFirst(issue, fallbackPairRisk) ==
    IF Truthy(issue) /\ issue.t \in {"object", "array"} /\ Truthy(Get(issue, "severity"))
    THEN normalizeRisk(Get(issue, "severity"))
    ELSE LET msg == toLowerCase(issueToMessage(issue).s)
         IN IF includes(msg, "missing env key") \/ includes(msg, "mismatch")
            THEN "medium"
            ELSE IF includes(msg, "missing snapshot for production")
                    \/ includes(msg, "app_debug")
            THEN "high"
            ELSE normalizeRisk(fallbackPairRisk)

\* The value inferSeverityFromIssue returns, when it does not throw.
inferSeverityFromIssue(issue, fallbackPairRisk) ==
    IF Truthy(issue) /\ issue.t \in {"object", "array"} /\ Truthy(Get(issue, "severity"))
    THEN normalizeRisk(Get(issue, "severity"))
    ELSE LET msg == toLowerCase(issueToMessage(issue).s)
         IN IF includes(msg, "missing snapshot for production") \/ includes(msg, "app_debug")
            THEN "high"
            ELSE IF includes(msg, "missing env key") \/ includes(msg, "mismatch")
            THEN "medium"
            ELSE normalizeRisk(fallbackPairRisk)

\* ------------------------------------------------------------ inputs

\* Length of the longest raw response body.
LongBodyLen == 250

\* The length text.slice(0, 200) keeps of a body that is not JSON.
SliceLen == 200

RECURSIVE Rep(_, _)
Rep(c, n) ==
    IF n = 0 THEN ""
    ELSE IF n % 2 = 0 THEN LET half == Rep(c, n \div 2) IN half \o half
    ELSE c \o Rep(c, n - 1)

\* Issue entries: plain strings and structured objects, well formed or not.
IssueSnapshot == Str("missing snapshot for production app")

IssuePlain == Str("Cache driver differs")

IssueBothKeywords == Str("APP_DEBUG mismatch")

IssueEnvKey == Obj(<<"message">>, <<Str("missing env key X")>>)

IssueExplicitLow == Obj(<<"severity", "message">>, <<Str("low"), Str("APP_DEBUG enabled")>>)

IssueExplicitHigh == Obj(<<"severity", "message">>, <<Str("HIGH"), Str("queue differs")>>)

IssueInvalidSeverity ==
    Obj(<<"severity", "message">>, <<Str("critical"), Str("APP_DEBUG enabled")>>)

IssueEmptySeverity == Obj(<<"severity", "message">>, <<Str(""), Str("TTL Mismatch")>>)

IssueTitleOnly == Obj(<<"title">>, <<Str("Missing Env Key Y")>>)

IssueNoText == Obj(<<"code">>, <<Str("app_debug")>>)

IssueNumericMessage == Obj(<<"message">>, <<Num("5")>>)

Pair(risk, issues) == Obj(<<"risk", "issues">>, <<risk, issues>>)

\* The response of the spec's worked example.
BodyExample ==
    Obj(<<"risk", "pairs">>,
        <<Str("high"),
          Obj(<<"a", "b">>,
              <<Pair(Str("low"), Arr(<<>>)), Pair(Str("high"), Arr(<<IssueSnapshot>>))>>)>>)

BodyMedium ==
    Obj(<<"risk", "pairs">>,
        <<Str("Medium"),
          Obj(<<"stg-prod", "qa-prod">>,
              <<Pair(Str("low"), Arr(<<IssueEnvKey, IssueExplicitLow, IssuePlain>>)),
                Pair(Str("HIGH"), Arr(<<IssueBothKeywords, IssueTitleOnly, IssuePlain>>))>>)>>)

BodyLow ==
    Obj(<<"risk", "pairs">>,
        <<Str("low"),
          Obj(<<"x", "y", "z">>,
              <<Pair(Str("medium"),
                     Arr(<<IssueInvalidSeverity, IssueNoText, IssueEmptySeverity,
                           IssueExplicitHigh, Null>>)),
                Obj(<<"risk">>, <<Str("high")>>),
                Null>>)>>)

BodyUnknownRisk ==
    Obj(<<"risk", "pairs">>,
        <<Str("critical"), Arr(<<Pair(Str("medium"), Str("oops")), Pair(Null, Arr(<<IssuePlain>>))>>)>>)

BodyArrayRisk == Obj(<<"risk">>, <<Arr(<<Str("high")>>)>>)

BodyNumericMessage ==
    Obj(<<"risk", "pairs">>,
        <<Str("low"),
          Obj(<<"p">>, <<Pair(Str("high"), Arr(<<IssuePlain, IssueNumericMessage, IssuePlain>>))>>)>>)

BodyMessage == Obj(<<"message", "risk">>, <<Str("invalid api key"), Str("low")>>)

BodyFalseMessage == Obj(<<"message", "risk">>, <<False, Str("high")>>)

\* The JSON documents a response body may hold.
JsonBodies ==
    {BodyExample, BodyMedium, BodyLow, BodyUnknownRisk, BodyArrayRisk, BodyNumericMessage,
     BodyMessage, BodyFalseMessage, Obj(<<>>, <<>>), Null, Num("5")}

\* Bodies that are not JSON.
RawBodies == {"<html>Bad Gateway</html>", Rep("x", SliceLen), Rep("x", LongBodyLen)}

Statuses == {200, 299, 300, 500}

Responses ==
    [status : Statuses, text : {Stringify(v) : v \in JsonBodies} \cup RawBodies \cup {""}]

NoResponse == [status |-> 0, text |-> ""]

\* Response.ok with the upper end of the range included.
okThrough300(response) == response.status \in 200..300

\* Response.ok
ok(response) == response.status \in 200..299

\* The INPUT_* environment variables: unset, or a string.
Environments ==
    {[api_key |-> key, api_url |-> url, fail_on |-> threshold, annotate |-> flag,
      baseline |-> compared[1], environments |-> compared[2]] :
        key \in {Undefined, Str(""), Str("k")},
        url \in {Undefined, Str(""), Str("/"), Str("https://cm.test"), Str("https://cm.test/")},
        threshold \in {Undefined, Str(""), Str("low"), Str("Medium"), Str("HIGH"),
                       Str("critical")},
        flag \in {Undefined, Str("False"), Str("0")},
        compared \in {<<Undefined, Undefined>>, <<Str("main"), Str("staging, main,,qa")>>}}

\* JSON.parse, as the inverse of JSON.stringify on the documents of JsonBodies;
\* a text that is no document's rendering is a SyntaxError.
Parses(txt) == \E v \in JsonBodies : Stringify(v) = txt

JSONParse(txt) == CHOOSE v \in JsonBodies : Stringify(v) = txt

\* ------------------------------------------------------------ main()

VARIABLES
    env,          \* process.env
    pc,           \* the position of main()
    apiKey, apiUrl, baseline, environments, failOn, annotate,
    res, text, json,
    globalRisk, pairEntries, counts, totalIssues,
    pi, ii,       \* the pair and the issue the detail loops are at
    err,          \* the pending exception, as the first line of its stack
    stdout,       \* console.log lines
    stderr,       \* console.error lines
    exits,        \* the statuses process.exit was called with
    requests      \* the fetch calls issued

cfgVars == <<apiKey, apiUrl, baseline, environments, failOn, annotate>>

resVars == <<res, text, json>>

sumVars == <<globalRisk, pairEntries, counts, totalIssues>>

loopVars == <<pi, ii>>

outVars == <<stdout, stderr, exits, requests>>

vars == <<env, pc, cfgVars, resVars, sumVars, loopVars, err, outVars>>

Init ==
    /\ env \in Environments
    /\ pc = "start"
    /\ apiKey = Undefined
    /\ apiUrl = ""
    /\ baseline = Undefined
    /\ environments = <<>>
    /\ failOn = ""
    /\ annotate = FALSE
    /\ res = NoResponse
    /\ text = ""
    /\ json = Undefined
    /\ globalRisk = ""
    /\ pairEntries = <<>>
    /\ counts = [high |-> 0, medium |-> 0, low |-> 0]
    /\ totalIssues = 0
    /\ pi = 0
    /\ ii = 0
    /\ err = ""
    /\ stdout = <<>>
    /\ stderr = <<>>
    /\ exits = <<>>
    /\ requests = <<>>

\* throw: control passes to main().catch
Throw(message) == pc' = "catch" /\ err' = message

Line(kind, p, i, txt) == [kind |-> kind, p |-> p, i |-> i, text |-> txt]

\* The issues of a pair, [] unless data?.issues is an array.
IssuesOf(data) ==
    IF IsArray(GetOpt(data, "issues")) THEN GetOpt(data, "issues").e ELSE <<>>

ReadInputs ==
    /\ pc = "start"
    /\ apiKey' = getInput(env, "api_key", Str(""))
    /\ apiUrl' = StripTrailingSlash(JSString(getInput(env, "api_url", Str(""))))
    /\ baseline' = getInput(env, "baseline", Str("production"))
    /\ environments' = parseCsv(getInput(env, "environments", Str("staging,production")).s)
    /\ failOn' = normalizeRisk(getInput(env, "fail_on", Str("high")))
    /\ annotate' = (toLowerCase(JSString(getInput(env, "annotate", Str("true")))) # "false")
    /\ pc' = "validate"
    /\ UNCHANGED <<env, resVars, sumVars, loopVars, err, outVars>>

ValidateInputs ==
    /\ pc = "validate"
    /\ IF ~Truthy(apiKey) THEN Throw("Error: Missing required input: api_key")
       ELSE IF apiUrl = "" THEN Throw("Error: Missing required input: api_url")
       ELSE pc' = "fetch" /\ UNCHANGED err
    /\ UNCHANGED <<env, cfgVars, resVars, sumVars, loopVars, outVars>>

Fetch ==
    /\ pc = "fetch"
    /\ requests' = Append(requests, [url |-> apiUrl \o "/api/compare",
                                     method |-> "POST",
                                     authorization |-> "Bearer " \o apiKey.s,
                                     contentType |-> "application/json",
                                     accept |-> "application/json",
                                     body |-> Stringify(
                                        Obj(<<"environments", "baseline">>,
                                            <<Arr([i \in 1..Len(environments) |->
                                                      Str(environments[i])]),
                                              baseline>>))])
    /\ pc' = "awaitFetch"
    /\ UNCHANGED <<env, cfgVars, resVars, sumVars, loopVars, err, stdout, stderr, exits>>

\* The fetch promise resolves with a response of any status.
FetchResolve ==
    /\ pc = "awaitFetch"
    /\ \E r \in Responses : res' = r
    /\ pc' = "awaitText"
    /\ UNCHANGED <<env, cfgVars, text, json, sumVars, loopVars, err, outVars>>

\* The fetch promise rejects: the transport failed.
FetchReject ==
    /\ pc = "awaitFetch"
    /\ Throw("TypeError: fetch failed")
    /\ UNCHANGED <<env, cfgVars, resVars, sumVars, loopVars, outVars>>

ReadText ==
    /\ pc = "awaitText"
    /\ text' = res.text
    /\ pc' = "parse"
    /\ UNCHANGED <<env, cfgVars, res, json, sumVars, loopVars, err, outVars>>

ParseBody ==
    /\ pc = "parse"
    /\ IF text = "" THEN json' = Obj(<<>>, <<>>) /\ pc' = "status" /\ UNCHANGED err
       ELSE IF Parses(text) THEN json' = JSONParse(text) /\ pc' = "status" /\ UNCHANGED err
       ELSE /\ Throw("Error: CloudMonitor compare returned non-JSON (status "
                     \o ToString(res.status) \o "): " \o slice(text, SliceLen))
            /\ UNCHANGED json
    /\ UNCHANGED <<env, cfgVars, res, text, sumVars, loopVars, outVars>>

CheckStatus ==
    /\ pc = "status"
    /\ IF ~ok(res)
       THEN Throw("Error: CloudMonitor compare failed (status " \o ToString(res.status) \o ")"
                  \o (IF Truthy(GetOpt(json, "message"))
                      THEN ": " \o JSString(GetOpt(json, "message"))
                      ELSE ""))
       ELSE pc' = "summarize" /\ UNCHANGED err
    /\ UNCHANGED <<env, cfgVars, resVars, sumVars, loopVars, outVars>>

\* The counting loop over the pair entries from entry i on.
RECURSIVE CountPairs(_, _, _)
CountPairs(entries, i, acc) ==
    IF i > Len(entries) THEN acc
    ELSE LET r == normalizeRisk(GetOpt(entries[i].data, "risk"))
         IN CountPairs(entries, i + 1,
                [counts |-> [acc.counts EXCEPT ![r] = @ + 1],
                 totalIssues |-> acc.totalIssues + Len(IssuesOf(entries[i].data))])

Summarize ==
    /\ pc = "summarize"
    /\ IF json.t = "null"
       THEN /\ Throw("TypeError: Cannot read properties of null (reading 'risk')")
            /\ UNCHANGED sumVars
       ELSE /\ globalRisk' = normalizeRisk(Get(json, "risk"))
            /\ pairEntries' = Entries(OrElse(Get(json, "pairs"), Obj(<<>>, <<>>)))
            /\ \E sums \in {CountPairs(pairEntries', 1,
                                [counts |-> [high |-> 0, medium |-> 0, low |-> 0],
                                 totalIssues |-> 0])} :
                  /\ counts' = sums.counts
                  /\ totalIssues' = sums.totalIssues
            /\ pc' = "summary"
            /\ UNCHANGED err
    /\ UNCHANGED <<env, cfgVars, resVars, loopVars, outVars>>

PrintSummary ==
    /\ pc = "summary"
    /\ stdout' = stdout \o
         <<Line("summary", 0, 0,
                "CloudMonitor baseline=" \o baseline.s \o " risk=" \o toUpperCase(globalRisk)
                \o " pairs=" \o ToString(Len(pairEntries))
                \o " issues=" \o ToString(totalIssues)),
           Line("counts", 0, 0,
                "Pairs: " \o ToString(counts.high) \o " HIGH / " \o ToString(counts.medium)
                \o " MED / " \o ToString(counts.low) \o " LOW")>>
    /\ pi' = 1
    /\ pc' = "pairs"
    /\ UNCHANGED <<env, cfgVars, resVars, sumVars, ii, err, stderr, exits, requests>>

\* if (!issues.length) continue
SkipPair ==
    /\ pc = "pairs"
    /\ pi <= Len(pairEntries)
    /\ IssuesOf(pairEntries[pi].data) = <<>>
    /\ pi' = pi + 1
    /\ UNCHANGED <<env, pc, cfgVars, resVars, sumVars, ii, err, outVars>>

PrintPairHeader ==
    /\ pc = "pairs"
    /\ pi <= Len(pairEntries)
    /\ IssuesOf(pairEntries[pi].data) # <<>>
    /\ \E r \in {normalizeRisk(GetOpt(pairEntries[pi].data, "risk"))} :
          stdout' = Append(stdout,
             Line("header", pi, 0,
                  "\n" \o icon(r) \o " " \o pairEntries[pi].name
                  \o " (" \o toUpperCase(r) \o ")"))
    /\ ii' = 1
    /\ pc' = "issue"
    /\ UNCHANGED <<env, cfgVars, resVars, sumVars, pi, err, stderr, exits, requests>>

\* The end of one turn of the issue loop: the next issue, or the next pair.
NextIssue ==
    IF ii < Len(IssuesOf(pairEntries[pi].data))
    THEN ii' = ii + 1 /\ pc' = "issue" /\ UNCHANGED pi
    ELSE pi' = pi + 1 /\ pc' = "pairs" /\ UNCHANGED ii

PrintIssue ==
    /\ pc = "issue"
    /\ \E msg \in {issueToMessage(IssuesOf(pairEntries[pi].data)[ii])} :
          stdout' = Append(stdout, Line("issue", pi, ii, "  - " \o JSString(msg)))
    /\ IF annotate THEN pc' = "annotate" /\ UNCHANGED loopVars ELSE NextIssue
    /\ UNCHANGED <<env, cfgVars, resVars, sumVars, err, stderr, exits, requests>>

Annotate ==
    /\ pc = "annotate"
    /\ \E issue \in {IssuesOf(pairEntries[pi].data)[ii]},
          r \in {normalizeRisk(GetOpt(pairEntries[pi].data, "risk"))} :
          IF InferThrows(issue)
          THEN /\ Throw("TypeError: issueToMessage(...).toLowerCase is not a function")
               /\ UNCHANGED <<stdout, loopVars>>
          ELSE /\ \E sev \in {inferSeverityFromIssue(issue, Str(r))} :
                     stdout' = Append(stdout,
                        Line("annotation", pi, ii,
                             annotationPrefix(sev) \o pairEntries[pi].name \o ": "
                             \o JSString(issueToMessage(issue))))
               /\ NextIssue
               /\ UNCHANGED err
    /\ UNCHANGED <<env, cfgVars, resVars, sumVars, stderr, exits, requests>>

DecideFail ==
    /\ pc = "pairs"
    /\ pi > Len(pairEntries)
    /\ IF severityRank(globalRisk) >= severityRank(failOn)
       THEN /\ stderr' = Append(stderr,
                  "CloudMonitor: failing because risk=" \o toUpperCase(globalRisk)
                  \o " >= fail_on=" \o toUpperCase(failOn))
            /\ exits' = Append(exits, 1)
       ELSE /\ exits' = Append(exits, 0)
            /\ UNCHANGED stderr
    /\ pc' = "exited"
    /\ UNCHANGED <<env, cfgVars, resVars, sumVars, loopVars, err, stdout, requests>>

\* A catch handler that reports the error and leaves the exit status unset.
CatchWithoutExit ==
    /\ pc = "catch"
    /\ stderr' = Append(stderr, err)
    /\ pc' = "exited"
    /\ UNCHANGED <<env, cfgVars, resVars, sumVars, loopVars, err, stdout, exits, requests>>

\* main().catch
Catch ==
    /\ pc = "catch"
    /\ stderr' = Append(stderr, err)
    /\ exits' = Append(exits, 1)
    /\ pc' = "exited"
    /\ UNCHANGED <<env, cfgVars, resVars, sumVars, loopVars, err, stdout, requests>>

Next ==
    \/ ReadInputs
    \/ ValidateInputs
    \/ Fetch
    \/ FetchResolve
    \/ FetchReject
    \/ ReadText
    \/ ParseBody
    \/ CheckStatus
    \/ Summarize
    \/ PrintSummary
    \/ SkipPair
    \/ PrintPairHeader
    \/ PrintIssue
    \/ Annotate
    \/ DecideFail
    \/ Catch

Spec == Init /\ [][Next]_vars

\* The steps main() takes by itself; the fetch promise settles when the network does.
Local ==
    \/ ReadInputs
    \/ ValidateInputs
    \/ Fetch
    \/ ReadText
    \/ ParseBody
    \/ CheckStatus
    \/ Summarize
    \/ PrintSummary
    \/ SkipPair
    \/ PrintPairHeader
    \/ PrintIssue
    \/ Annotate
    \/ DecideFail
    \/ Catch

\* The event loop runs main() on whenever it can run; a request may hang forever.
FairSpec == Spec /\ WF_vars(Local)

\* ------------------------------------------------------------ properties

Responded == res # NoResponse

SuccessStatus == res.status >= 200 /\ res.status <= 299

BodyParses == res.text = "" \/ Parses(res.text)

StartsWith(s, prefix) == Len(s) >= Len(prefix) /\ SubSeq(s, 1, Len(prefix)) = prefix

LinesOf(kind) == {n \in 1..Len(stdout) : stdout[n].kind = kind}

IssueAt(line) == IssuesOf(pairEntries[line.p].data)[line.i]

PairRiskAt(line) == normalizeRisk(GetOpt(pairEntries[line.p].data, "risk"))

\* The level keyword inference gives a message text, "none" without a keyword.
KeywordLevel(message) ==
    LET lowered == toLowerCase(message)
    IN IF includes(lowered, "missing snapshot for production") \/ includes(lowered, "app_debug")
       THEN "high"
       ELSE IF includes(lowered, "missing env key") \/ includes(lowered, "mismatch")
       THEN "medium"
       ELSE "none"

ValidLevel(v) == v.t = "string" /\ toLowerCase(v.s) \in Levels

HasKey(v, key) == v.t = "object" /\ \E i \in 1..Len(v.k) : v.k[i] = key

\* C1: a run that gets a parseable response with a success status exits 1 iff
\* rank(normalized top-level risk) >= rank(normalized fail_on), and 0 otherwise,
\* whatever the pairs and issues are.
C1_ExitIffRiskMeetsThreshold ==
    (pc = "exited" /\ Responded /\ SuccessStatus /\ BodyParses) =>
        exits = <<IF severityRank(normalizeRisk(GetOpt(json, "risk")))
                     >= severityRank(normalizeRisk(getInput(env, "fail_on", Str("high"))))
                  THEN 1 ELSE 0>>

MissingConfig ==
    \/ env.api_key \in {Undefined, Str("")}
    \/ env.api_url \in {Undefined, Str(""), Str("/")}

\* C2: with api_key or api_url empty or absent (api_url "/" included) the run
\* never issues a request and ends with a configuration error and status 1.
C2_NoRequestWithoutConfig ==
    MissingConfig =>
        /\ requests = <<>>
        /\ ~Responded
        /\ pc \in {"start", "validate", "catch", "exited"}
        /\ pc = "exited" =>
              /\ exits = <<1>>
              /\ stdout = <<>>
              /\ Len(stderr) = 1
              /\ includes(stderr[1], "Missing required input: api_")

C2_Witness ==
    /\ pc = "exited"
    /\ env.api_key = Str("k")
    /\ env.api_url = Str("/")
    /\ exits = <<1>>
    /\ requests = <<>>

\* C3: a body that is not JSON, under any status and fail_on, ends the run with
\* one error line holding "status <code>" and at most the first 200 characters
\* of the body, status 1, and nothing printed on the standard output.
C3_NonJsonBodyFails ==
    (pc = "exited" /\ Responded /\ ~BodyParses) =>
        /\ exits = <<1>>
        /\ stdout = <<>>
        /\ Len(stderr) = 1
        /\ includes(stderr[1], "status " \o ToString(res.status))
        /\ \E n \in 0..200 :
              /\ n <= Len(res.text)
              /\ stderr[1] = "Error: CloudMonitor compare returned non-JSON (status "
                             \o ToString(res.status) \o "): " \o SubSeq(res.text, 1, n)

C3_Witness ==
    /\ pc = "exited"
    /\ Responded
    /\ ~BodyParses
    /\ Len(res.text) > 200
    /\ res.status = 500
    /\ exits = <<1>>

\* C4 as stated: a non-success status with a parseable or empty body ends the
\* run with an error holding the status and the body's message field whenever
\* the field is present, status 1, and nothing on the standard output.
C4_MessageWhenPresent ==
    (pc = "exited" /\ Responded /\ ~SuccessStatus /\ BodyParses) =>
        /\ exits = <<1>>
        /\ stdout = <<>>
        /\ Len(stderr) = 1
        /\ includes(stderr[1], "status " \o ToString(res.status))
        /\ HasKey(json, "message") => includes(stderr[1], ": " \o JSString(Get(json, "message")))

\* C4 amended: a non-success status with a parseable or empty body ends the run
\* with an error holding the status, and the body's message field when it is
\* truthy (a falsy message such as false is left out), status 1, whatever the
\* body's risk and fail_on are, and nothing on the standard output.
C4_ApiErrorFails ==
    (pc = "exited" /\ Responded /\ ~SuccessStatus /\ BodyParses) =>
        /\ exits = <<1>>
        /\ stdout = <<>>
        /\ Len(stderr) = 1
        /\ stderr[1] = "Error: CloudMonitor compare failed (status " \o ToString(res.status)
                       \o ")"
                       \o (IF Truthy(GetOpt(json, "message"))
                           THEN ": " \o JSString(GetOpt(json, "message"))
                           ELSE "")

C4_Witness ==
    /\ pc = "exited"
    /\ Responded
    /\ res.status = 300
    /\ json = BodyMessage
    /\ env.fail_on = Str("HIGH")
    /\ includes(stderr[1], "invalid api key")
    /\ exits = <<1>>

\* The severity C5 states: the own severity when present and valid, else the
\* keyword level of the message, else the pair's risk.
ClaimedSeverity(issue, pairRisk) ==
    LET sev == GetOpt(issue, "severity")
        keyword == KeywordLevel(JSString(issueToMessage(issue)))
    IN IF ValidLevel(sev) THEN toLowerCase(sev.s)
       ELSE IF keyword # "none" THEN keyword
       ELSE pairRisk

NoOwnSeverity(issue) == ~HasKey(issue, "severity")

\* C6: for an issue without an own severity, a high keyword in the message gives
\* ::error:: even beside a medium keyword, else a medium keyword gives
\* ::warning:: whatever the pair's risk is, and only without a keyword does the
\* pair's risk decide.
C6_KeywordFirstMatchWins ==
    \A n \in LinesOf("annotation") :
        NoOwnSeverity(IssueAt(stdout[n])) =>
            LET lowered == toLowerCase(JSString(issueToMessage(IssueAt(stdout[n]))))
                high == includes(lowered, "missing snapshot for production")
                        \/ includes(lowered, "app_debug")
                medium == includes(lowered, "missing env key") \/ includes(lowered, "mismatch")
                prefix == IF high THEN "::error::"
                          ELSE IF medium THEN "::warning::"
                          ELSE IF PairRiskAt(stdout[n]) = "high" THEN "::error::"
                          ELSE IF PairRiskAt(stdout[n]) = "medium" THEN "::warning::"
                          ELSE "::notice::"
            IN StartsWith(stdout[n].text, prefix \o pairEntries[stdout[n].p].name \o ": ")

C6_Witness ==
    /\ pc = "exited"
    /\ json = BodyMedium
    /\ \E n \in LinesOf("annotation") :
          stdout[n].text = "::warning::stg-prod: missing env key X"
    /\ \E n \in LinesOf("annotation") :
          stdout[n].text = "::error::qa-prod: APP_DEBUG mismatch"
    /\ \E n \in LinesOf("annotation") :
          stdout[n].text = "::warning::qa-prod: Missing Env Key Y"
    /\ \E n \in LinesOf("annotation") :
          stdout[n].text = "::notice::stg-prod: Cache driver differs"

\* The level C7 states for a value: its lowercase when it is the string high,
\* medium or low in any letter case, low for everything else.
ClaimedLevel(v) == IF ValidLevel(v) THEN toLowerCase(v.s) ELSE "low"

\* C7: normalizeRisk gives every string high, medium or low (any case) its
\* lowercase and every other input low, so the threshold, the global risk and
\* every pair's counted risk are ranked levels.
C7_NormalizeRiskExact ==
    /\ pc # "start" => failOn = ClaimedLevel(getInput(env, "fail_on", Str("high")))
    /\ globalRisk # "" =>
          /\ globalRisk \in Levels
          /\ globalRisk = ClaimedLevel(Get(json, "risk"))
          /\ \A level \in Levels :
                counts[level] = Cardinality({p \in 1..Len(pairEntries) :
                                    ClaimedLevel(GetOpt(pairEntries[p].data, "risk")) = level})

\* The order of the events of a run.
C8_Order ==
    /\ Len(requests) <= 1
    /\ Len(exits) <= 1
    /\ requests # <<>> => pc \notin {"start", "validate"} /\ Truthy(apiKey) /\ apiUrl # ""
    /\ Responded => Len(requests) = 1
    /\ stdout # <<>> =>
          /\ Responded
          /\ text = res.text
          /\ json = (IF text = "" THEN Obj(<<>>, <<>>) ELSE JSONParse(text))
          /\ stdout[1].kind = "summary"
    /\ \A n \in 1..Len(stdout) : n > 2 <=> stdout[n].kind \in {"header", "issue", "annotation"}
    /\ exits # <<>> <=> pc = "exited"

\* What a step may do: a request only before any response or failure, output
\* only before the exit, and with the exit at most the one line of its reason.
C8_Step ==
    /\ requests' # requests => requests = <<>> /\ ~Responded /\ err = ""
    /\ res' # res => ~Responded
    /\ stdout' # stdout =>
          /\ exits' = <<>>
          /\ err = ""
          /\ Len(stdout') > Len(stdout)
          /\ SubSeq(stdout', 1, Len(stdout)) = stdout
    /\ exits' # exits =>
          /\ exits = <<>>
          /\ stdout' = stdout
          /\ Len(stderr') <= Len(stderr) + 1
    /\ exits # <<>> => UNCHANGED outVars

\* C8: a run is the line configuration check, at most one request, response
\* parsed, printing, exit: nothing is printed before the response is parsed or
\* after the exit status is set, the request is never repeated, and a run that
\* gets a response ends with exactly one exit status.
C8_LinearRun ==
    /\ []C8_Order
    /\ [][C8_Step]_vars
    /\ Responded ~> (Len(exits) = 1)

C8_Witness ==
    /\ pc = "exited"
    /\ Len(requests) = 1
    /\ Len(stdout) > 4
    /\ exits = <<0>>

RECURSIVE SumIssues(_, _)
SumIssues(entries, i) ==
    IF i > Len(entries) THEN 0
    ELSE Len(IssuesOf(entries[i].data)) + SumIssues(entries, i + 1)

\* C9: after a successful response the summary agrees with the detail: the
\* HIGH, MED and LOW counts sum to the pairs count, the issues total is the sum
\* of the issue lists, a pair has a header iff it has an issue, there is one
\* detail line per counted issue, and one annotation after each detail line
\* when annotation is on, none when it is off.
C9_SummaryMatchesDetail ==
    (pc = "exited" /\ stdout # <<>>) =>
        /\ includes(stdout[1].text,
                    " pairs=" \o ToString(Len(pairEntries))
                    \o " issues=" \o ToString(SumIssues(pairEntries, 1)))
        /\ \E h, m, l \in 0..Len(pairEntries) :
              /\ h + m + l = Len(pairEntries)
              /\ stdout[2].text = "Pairs: " \o ToString(h) \o " HIGH / " \o ToString(m)
                                  \o " MED / " \o ToString(l) \o " LOW"
        /\ \A p \in 1..Len(pairEntries) :
              (\E n \in LinesOf("header") : stdout[n].p = p)
                  <=> IssuesOf(pairEntries[p].data) # <<>>
        /\ Cardinality(LinesOf("issue")) = SumIssues(pairEntries, 1)
        /\ IF env.annotate \in {Str("False")}
           THEN LinesOf("annotation") = {}
           ELSE /\ Cardinality(LinesOf("annotation")) = Cardinality(LinesOf("issue"))
                /\ \A n \in LinesOf("issue") :
                      /\ n < Len(stdout)
                      /\ stdout[n + 1].kind = "annotation"
                      /\ stdout[n + 1].p = stdout[n].p
                      /\ stdout[n + 1].i = stdout[n].i

\* C10: with fail_on set to low or to any unrecognised or empty value, every
\* run that gets a parseable response with a success status exits 1, whatever
\* the response's risk, pairs and issues are.
C10_LenientThresholdAlwaysFails ==
    (/\ pc = "exited"
     /\ Responded
     /\ SuccessStatus
     /\ BodyParses
     /\ env.fail_on.t = "string"
     /\ toLowerCase(env.fail_on.s) \notin {"medium", "high"}) => exits = <<1>>

C10_Witness ==
    /\ pc = "exited"
    /\ env.fail_on = Str("critical")
    /\ json = BodyLow
    /\ globalRisk = "low"
    /\ err = ""
    /\ Len(stderr) = 1
    /\ exits = <<1>>

====
